---- MODULE Spec2Model ----
(***************************************************************************)
(* Model of src/openai-wrapper.py: the OpenAIWrapper client.               *)
(*                                                                         *)
(* Python values are represented as follows.                               *)
(*   Optional[T]   a set with at most one element: None is {}, v is {v}.   *)
(*   dict          a function from its keys (strings) to its values.       *)
(*   float         temperatures are counted in tenths (0.7 is 7).          *)
(* The network and the process environment are the model's inputs.         *)
(***************************************************************************)
EXTENDS Integers, Sequences, FiniteSets, TLC

(* ------------------------------ bounds --------------------------------- *)

\* Number of chat_completion / create_image calls made on the client.
MaxCalls == 2

(* ------------------------- Python value helpers ------------------------ *)

None == {}
Some(v) == {v}
Val(o) == CHOOSE v \in o : TRUE

\* Truth value of an Optional[str]: None and "" are falsy.
TruthyStr(o) == o # None /\ o # Some("")

\* Truth value of an Optional[int]: None and 0 are falsy.
TruthyInt(o) == o # None /\ o # Some(0)

EmptyDict == [k \in {} |-> ""]

(* ------------------------------ inputs --------------------------------- *)

\* Values of the api_key argument (None when the argument is not passed).
ApiKeyArgs == {None, Some(""), Some("sk-arg")}

\* Values of the OPENAI_API_KEY environment variable (None when unset).
EnvValues == {None, Some(""), Some("sk-env")}

Hi == [role |-> "user", content |-> "Hi"]
Sys == [role |-> "system", content |-> "You are a helpful assistant."]

DefaultModel == "gpt-3.5-turbo"
DefaultTemperature == 7
DefaultSize == "1024x1024"
DefaultN == 1
DefaultResponseFormat == "url"

\* Argument tuples of chat_completion, defaults filled in as Python does.
ChatArgs ==
    { [messages |-> <<Hi>>, model |-> DefaultModel,
       temperature |-> DefaultTemperature, max_tokens |-> None],
      [messages |-> <<Hi>>, model |-> DefaultModel,
       temperature |-> DefaultTemperature, max_tokens |-> Some(150)],
      [messages |-> <<Sys, Hi>>, model |-> DefaultModel,
       temperature |-> DefaultTemperature, max_tokens |-> Some(0)],
      [messages |-> <<Hi, Sys>>, model |-> "gpt-4",
       temperature |-> 0, max_tokens |-> Some(-1)],
      [messages |-> <<>>, model |-> "gpt-4",
       temperature |-> 10, max_tokens |-> None] }

\* Argument tuples of create_image, defaults filled in as Python does.
ImageArgs ==
    { [prompt |-> "A cat", size |-> DefaultSize, n |-> DefaultN,
       response_format |-> DefaultResponseFormat],
      [prompt |-> "A cat", size |-> "512x512", n |-> 2,
       response_format |-> "b64_json"],
      [prompt |-> "", size |-> "256x256", n |-> 0,
       response_format |-> DefaultResponseFormat] }

(* ----------------------------- __init__ -------------------------------- *)

\* Variants of line 16 that differ from it: the environment is ignored; only
\* None (not '') falls back to the environment; the environment comes first.
ResolveKeyArgOnly(api_key_arg, envv) == api_key_arg

ResolveKeyNoneOnly(api_key_arg, envv) ==
    IF api_key_arg # None THEN api_key_arg ELSE envv

ResolveKeyEnvFirst(api_key_arg, envv) ==
    IF TruthyStr(envv) THEN envv ELSE api_key_arg

\* Line 16: api_key or os.getenv('OPENAI_API_KEY').
ResolveKey(api_key_arg, envv) ==
    IF TruthyStr(api_key_arg) THEN api_key_arg ELSE envv

BaseUrl == "https://api.openai.com/v1"

\* Lines 21-24: the default headers.
MakeHeaders(key) ==
    ("Authorization" :> "Bearer " \o key) @@
    ("Content-Type" :> "application/json")

ConfigMessage ==
    "API key must be provided either directly or through OPENAI_API_KEY environment variable"

(* ------------------------ the requests library ------------------------- *)

\* What the transport does with one requests.post call: it fails to connect,
\* or it hands back the final response of the server.
ConnectionFailure ==
    [kind |-> "ConnectionError", status |-> 0, reason |-> "", body |-> "",
     msg |-> "Connection refused"]

Response(status, reason, body) ==
    [kind |-> "Response", status |-> status, reason |-> reason, body |-> body,
     msg |-> ""]

Outcomes ==
    { ConnectionFailure,
      Response(200, "OK", "{\"id\": \"c1\"}"),
      Response(200, "OK", "<html>"),
      Response(204, "No Content", ""),
      Response(304, "Not Modified", "{\"id\": \"c1\"}"),
      Response(401, "Unauthorized", "{\"error\": \"bad\"}"),
      Response(404, "Not Found", "<html>"),
      Response(500, "Internal Server Error", "{\"error\": \"bad\"}"),
      Response(503, "Service Unavailable", "") }

\* json.loads on the body texts above: the texts that are JSON documents, and
\* the value each decodes to.
JsonDecoded ==
    ("{\"id\": \"c1\"}" :> [id |-> "c1"]) @@
    ("{\"error\": \"bad\"}" :> [error |-> "bad"])

JsonErrMsg == "Expecting value: line 1 column 1 (char 0)"

\* A raise_for_status() that lets 4xx responses through.
RaiseForStatus5xxOnly(status, reason, url) ==
    IF 500 <= status /\ status < 600
    THEN Some(ToString(status) \o " Server Error: " \o reason \o " for url: " \o url)
    ELSE None

\* Response.raise_for_status(): the HTTPError text for a 4xx or 5xx status,
\* None for every other status.
RaiseForStatus(status, reason, url) ==
    IF 400 <= status /\ status < 500
    THEN Some(ToString(status) \o " Client Error: " \o reason \o " for url: " \o url)
    ELSE IF 500 <= status /\ status < 600
    THEN Some(ToString(status) \o " Server Error: " \o reason \o " for url: " \o url)
    ELSE None

(* -------------------- chat_completion and create_image ----------------- *)

ChatEndpoint(base) == base \o "/chat/completions"
ImageEndpoint(base) == base \o "/images/generations"

\* A payload that sends max_tokens always, null when it is None.
ChatPayloadNull(messages, model, temperature, max_tokens) ==
    [model |-> model, messages |-> messages, temperature |-> temperature]
        @@ ("max_tokens" :> max_tokens)

\* Lines 45-52.
ChatPayload(messages, model, temperature, max_tokens) ==
    LET payload == [model |-> model, messages |-> messages,
                    temperature |-> temperature]
    IN  IF TruthyInt(max_tokens)
        THEN payload @@ ("max_tokens" :> Val(max_tokens))
        ELSE payload

\* A payload that leaves response_format out when it is the default.
ImagePayloadSparse(prompt, size, n, response_format) ==
    LET payload == [prompt |-> prompt, size |-> size, n |-> n]
    IN  IF response_format # DefaultResponseFormat
        THEN payload @@ ("response_format" :> response_format)
        ELSE payload

\* Lines 80-85.
ImagePayload(prompt, size, n, response_format) ==
    [prompt |-> prompt, size |-> size, n |-> n,
     response_format |-> response_format]

\* requests.post(endpoint, headers=..., json=...): the request handed to the
\* transport.
Post(endpoint, hdrs, payload) ==
    [method |-> "POST", url |-> endpoint, headers |-> hdrs, json |-> payload]

Return(value) ==
    [kind |-> "return", type |-> "", msg |-> "", value |-> Some(value)]

Raise(type, msg) ==
    [kind |-> "raise", type |-> type, msg |-> msg, value |-> None]

FailurePrefix == "API request failed: "

\* A try block that posts a second time after a connection failure.
TryPostRetry(endpoint, hdrs, payload, outcome, jsonCaught) ==
    LET req == Post(endpoint, hdrs, payload)
        err == RaiseForStatus(outcome.status, outcome.reason, endpoint)
    IN  IF outcome.kind = "ConnectionError"
        THEN [sent |-> <<req, req>>,
              result |-> Raise("Exception", FailurePrefix \o outcome.msg)]
        ELSE IF err # None
        THEN [sent |-> <<req>>,
              result |-> Raise("Exception", FailurePrefix \o Val(err))]
        ELSE IF outcome.body \in DOMAIN JsonDecoded
        THEN [sent |-> <<req>>, result |-> Return(JsonDecoded[outcome.body])]
        ELSE IF jsonCaught
        THEN [sent |-> <<req>>,
              result |-> Raise("Exception", FailurePrefix \o JsonErrMsg)]
        ELSE [sent |-> <<req>>, result |-> Raise("JSONDecodeError", JsonErrMsg)]

\* The try block of lines 54-59 and 87-92: the requests.post calls it makes
\* and how the call ends.  jsonCaught tells whether the error response.json()
\* raises is a requests.exceptions.RequestException: it is from requests 2.27
\* on; before, it is json's JSONDecodeError, a ValueError that the except
\* clause lets through.
TryPost(endpoint, hdrs, payload, outcome, jsonCaught) ==
    LET req == Post(endpoint, hdrs, payload)
        err == RaiseForStatus(outcome.status, outcome.reason, endpoint)
    IN  IF outcome.kind = "ConnectionError"
        THEN [sent |-> <<req>>,
              result |-> Raise("Exception", FailurePrefix \o outcome.msg)]
        ELSE IF err # None
        THEN [sent |-> <<req>>,
              result |-> Raise("Exception", FailurePrefix \o Val(err))]
        ELSE IF outcome.body \in DOMAIN JsonDecoded
        THEN [sent |-> <<req>>, result |-> Return(JsonDecoded[outcome.body])]
        ELSE IF jsonCaught
        THEN [sent |-> <<req>>,
              result |-> Raise("Exception", FailurePrefix \o JsonErrMsg)]
        ELSE [sent |-> <<req>>, result |-> Raise("JSONDecodeError", JsonErrMsg)]

\* Every call a caller can make, as operation and arguments.
Calls ==
    { [op |-> "chat_completion", args |-> a] : a \in ChatArgs } \cup
    { [op |-> "create_image", args |-> a] : a \in ImageArgs }

VARIABLES
    env,        \* OPENAI_API_KEY in os.environ, an Optional[str]
    jsonErrIsRequestException,
                \* the installed requests raises its own JSONDecodeError (a
                \* RequestException, requests 2.27 and later) from
                \* response.json(); otherwise json's, a ValueError
    state,      \* "unconstructed" or "ready"
    api_key,    \* self.api_key, an Optional[str]
    base_url,   \* self.base_url, an Optional[str]
    headers,    \* self.headers, a dict
    ctor,       \* the last call of __init__: its inputs and what it raised
    ncalls,     \* calls of chat_completion and create_image made so far
    nposts,     \* calls of requests.post made so far
    last,       \* the last call: arguments, requests posted, how it ended
    sentFor     \* for each call, what it posted each time it was made

client == <<state, api_key, base_url, headers, ctor>>
vars == <<env, jsonErrIsRequestException, state, api_key, base_url, headers,
          ctor, ncalls, nposts, last, sentFor>>

NoCtor ==
    [called |-> FALSE, arg |-> None, env |-> None, raised |-> "", msg |-> ""]

Init ==
    /\ env \in EnvValues
    /\ jsonErrIsRequestException \in BOOLEAN
    /\ state = "unconstructed"
    /\ api_key = None
    /\ base_url = None
    /\ headers = EmptyDict
    /\ ctor = NoCtor
    /\ ncalls = 0
    /\ nposts = 0
    /\ last = None
    /\ sentFor = [c \in Calls |-> <<>>]

\* The surrounding process sets or unsets OPENAI_API_KEY.
SetEnv ==
    /\ \E v \in EnvValues : v # env /\ env' = v
    /\ UNCHANGED <<jsonErrIsRequestException, client, ncalls, nposts, last,
                   sentFor>>

\* OpenAIWrapper(api_key): lines 10-24.
Construct ==
    /\ state = "unconstructed"
    /\ \E arg \in ApiKeyArgs :
        LET key == ResolveKey(arg, env) IN
        /\ api_key' = key
        /\ IF ~TruthyStr(key)
           THEN /\ ctor' = [called |-> TRUE, arg |-> arg, env |-> env,
                            raised |-> "ValueError", msg |-> ConfigMessage]
                /\ UNCHANGED <<state, base_url, headers>>
           ELSE /\ ctor' = [called |-> TRUE, arg |-> arg, env |-> env,
                            raised |-> "", msg |-> ""]
                /\ state' = "ready"
                /\ base_url' = Some(BaseUrl)
                /\ headers' = MakeHeaders(Val(key))
    /\ UNCHANGED <<env, jsonErrIsRequestException, ncalls, nposts, last,
                   sentFor>>

\* The end of a call: what it posted and how it ended are recorded.
Finish(op, args, outcome, done) ==
    /\ last' = Some([op |-> op, args |-> args, outcome |-> outcome,
                     sent |-> done.sent, result |-> done.result])
    /\ ncalls' = ncalls + 1
    /\ nposts' = nposts + Len(done.sent)
    /\ sentFor' = [sentFor EXCEPT ![[op |-> op, args |-> args]] =
                       Append(@, done.sent)]

\* The body of chat_completion, lines 43-59.
ChatCall(a, outcome) ==
    LET endpoint == ChatEndpoint(Val(base_url))
        payload == ChatPayload(a.messages, a.model, a.temperature,
                               a.max_tokens)
    IN  Finish("chat_completion", a, outcome,
               TryPost(endpoint, headers, payload, outcome,
                       jsonErrIsRequestException))

\* The body of create_image, lines 78-92.
ImageCall(a, outcome) ==
    LET endpoint == ImageEndpoint(Val(base_url))
        payload == ImagePayload(a.prompt, a.size, a.n, a.response_format)
    IN  Finish("create_image", a, outcome,
               TryPost(endpoint, headers, payload, outcome,
                       jsonErrIsRequestException))

\* chat_completion as it would be if it rebuilt the Authorization header
\* from the environment on each call.
chat_completion_rekey ==
    /\ state = "ready"
    /\ ncalls < MaxCalls
    /\ \E a \in ChatArgs, outcome \in Outcomes : ChatCall(a, outcome)
    /\ headers' = IF TruthyStr(env) THEN MakeHeaders(Val(env)) ELSE headers
    /\ UNCHANGED <<env, jsonErrIsRequestException, state, api_key, base_url,
                   ctor>>

chat_completion ==
    /\ state = "ready"
    /\ ncalls < MaxCalls
    /\ \E a \in ChatArgs, outcome \in Outcomes : ChatCall(a, outcome)
    /\ UNCHANGED <<env, jsonErrIsRequestException, client>>

create_image ==
    /\ state = "ready"
    /\ ncalls < MaxCalls
    /\ \E a \in ImageArgs, outcome \in Outcomes : ImageCall(a, outcome)
    /\ UNCHANGED <<env, jsonErrIsRequestException, client>>

Next == SetEnv \/ Construct \/ chat_completion \/ create_image

Spec == Init /\ [][Next]_vars

(* ----------------------------- properties ------------------------------ *)

Last == Val(last)
Called(op) == last # None /\ Last.op = op
IsHttpError(outcome) == outcome.kind = "Response" /\ outcome.status >= 400
IsSuccessStatus(outcome) ==
    outcome.kind = "Response" /\ 200 <= outcome.status /\ outcome.status < 300

\* C1: __init__ raises the configuration error exactly when neither the
\* argument nor the environment variable is a non-empty string; then the
\* client is not ready, and in every other case it is.
C1_ConfigErrorIffNoCredential ==
    ctor.called =>
        /\ (ctor.raised = "ValueError") <=>
               (ctor.arg \in {None, Some("")} /\ ctor.env \in {None, Some("")})
        /\ ctor.raised = "ValueError" =>
               (state = "unconstructed" /\ ctor.msg = ConfigMessage)
        /\ ctor.raised # "ValueError" => (ctor.raised = "" /\ state = "ready")

C1_Witness ==
    /\ ctor.called /\ ctor.raised = "ValueError"
    /\ ctor.arg = None /\ ctor.env = Some("")

\* C2: with a non-empty explicit argument __init__ succeeds whatever the
\* environment variable holds, and the credential kept, put in the
\* Authorization header and sent with requests is the argument.
C2_ExplicitKeyWins ==
    (ctor.called /\ ctor.arg \notin {None, Some("")}) =>
        /\ ctor.raised = "" /\ state = "ready"
        /\ api_key = ctor.arg
        /\ headers["Authorization"] = "Bearer " \o Val(ctor.arg)
        /\ last # None => \A i \in 1..Len(Last.sent) :
               Last.sent[i].headers["Authorization"] = "Bearer " \o Val(ctor.arg)

C2_Witness ==
    /\ ctor.called /\ ctor.arg = Some("sk-arg") /\ ctor.env = Some("sk-env")
    /\ state = "ready" /\ last # None /\ Len(Last.sent) > 0

\* C3: whenever chat_completion is given a max_tokens (any integer, not
\* None), the body posted has a max_tokens key with that value.
C3_MaxTokensProvidedIsSent ==
    (Called("chat_completion") /\ Last.args.max_tokens # None) =>
        \A i \in 1..Len(Last.sent) :
            /\ "max_tokens" \in DOMAIN Last.sent[i].json
            /\ Last.sent[i].json["max_tokens"] = Val(Last.args.max_tokens)

\* C4: whenever chat_completion is given no max_tokens, the body posted has
\* exactly the keys model, messages and temperature, with the caller's
\* values, and goes to the chat/completions endpoint; with all defaults it is
\* gpt-3.5-turbo, the caller's messages and 0.7.
C4_NoMaxTokensKeyWhenOmitted ==
    (Called("chat_completion") /\ Last.args.max_tokens = None) =>
        \A i \in 1..Len(Last.sent) :
            LET r == Last.sent[i] IN
            /\ r.method = "POST"
            /\ r.url = "https://api.openai.com/v1/chat/completions"
            /\ DOMAIN r.json = {"model", "messages", "temperature"}
            /\ r.json["model"] = Last.args.model
            /\ r.json["messages"] = Last.args.messages
            /\ r.json["temperature"] = Last.args.temperature
            /\ (Last.args.model = DefaultModel
                    /\ Last.args.temperature = DefaultTemperature) =>
                   r.json = [model |-> "gpt-3.5-turbo",
                             messages |-> Last.args.messages,
                             temperature |-> 7]

C4_Witness ==
    /\ Called("chat_completion")
    /\ Last.args = [messages |-> <<Hi>>, model |-> DefaultModel,
                    temperature |-> DefaultTemperature, max_tokens |-> None]
    /\ Len(Last.sent) = 1

\* C5: create_image always posts a body with exactly the keys prompt, size,
\* n and response_format, each the caller's argument or its default, to the
\* images/generations endpoint.
C5_ImageBodyHasAllFour ==
    Called("create_image") =>
        \A i \in 1..Len(Last.sent) :
            LET r == Last.sent[i] IN
            /\ r.method = "POST"
            /\ r.url = "https://api.openai.com/v1/images/generations"
            /\ DOMAIN r.json = {"prompt", "size", "n", "response_format"}
            /\ r.json["prompt"] = Last.args.prompt
            /\ r.json["size"] = Last.args.size
            /\ r.json["n"] = Last.args.n
            /\ r.json["response_format"] = Last.args.response_format

C5_Witness ==
    /\ Called("create_image")
    /\ Last.args = [prompt |-> "A cat", size |-> "1024x1024", n |-> 1,
                    response_format |-> "url"]
    /\ Len(Last.sent) = 1

\* C6: a call answered with a 4xx or 5xx status ends by raising the
\* request-failure error and returns no value, whatever the body; 4xx and 5xx
\* give the same error kind.
C6_HttpErrorRaises ==
    (last # None /\ IsHttpError(Last.outcome)) =>
        /\ Last.result.kind = "raise"
        /\ Last.result.type = "Exception"
        /\ Last.result.value = None

C6_Witness ==
    /\ Called("create_image")
    /\ Last.outcome = Response(401, "Unauthorized", "{\"error\": \"bad\"}")
    /\ Last.result.kind = "raise"

\* C7: connection failure, 4xx/5xx status and a 2xx response whose body is
\* not JSON all end the call with the same request-failure error, carrying
\* the text of the underlying cause.
C7_AllFailuresCollapse ==
    (last # None /\
        \/ Last.outcome.kind = "ConnectionError"
        \/ IsHttpError(Last.outcome)
        \/ (IsSuccessStatus(Last.outcome)
                /\ Last.outcome.body \notin DOMAIN JsonDecoded)) =>
        /\ Last.result.kind = "raise"
        /\ Last.result.type = "Exception"
        /\ Last.result.value = None
        /\ \E cause \in {Last.outcome.msg, JsonErrMsg} \cup
               UNION {RaiseForStatus(Last.outcome.status, Last.outcome.reason,
                                     Last.sent[i].url) : i \in 1..Len(Last.sent)} :
               Last.result.msg = "API request failed: " \o cause

\* C8: every call makes exactly one requests.post, whether it returns or
\* raises.
C8_OnePostPerCall ==
    /\ nposts = ncalls
    /\ last # None => Len(Last.sent) = 1
    /\ \A c \in Calls : \A k \in 1..Len(sentFor[c]) : Len(sentFor[c][k]) = 1

C8_Witness ==
    /\ ncalls >= 2
    /\ last # None /\ Last.outcome.kind = "ConnectionError"
    /\ Last.result.kind = "raise"

\* C9: once the client is ready, no call and no change of the environment
\* variable changes its credential, base URL or headers; every request
\* carries those headers, and a call repeated later posts the same request.
C9_ReadyClientHolds ==
    state = "ready" =>
        /\ api_key = ResolveKey(ctor.arg, ctor.env)
        /\ base_url = Some("https://api.openai.com/v1")
        /\ DOMAIN headers = {"Authorization", "Content-Type"}
        /\ headers["Authorization"] = "Bearer " \o Val(api_key)
        /\ headers["Content-Type"] = "application/json"
        /\ \A c \in Calls : \A k \in 1..Len(sentFor[c]) :
               /\ sentFor[c][k] = sentFor[c][1]
               /\ \A i \in 1..Len(sentFor[c][k]) :
                      sentFor[c][k][i].headers = headers

C9_ClientImmutable ==
    /\ []C9_ReadyClientHolds
    /\ [][state = "ready" =>
             /\ state' = "ready"
             /\ api_key' = api_key
             /\ base_url' = base_url
             /\ headers' = headers]_vars

C9_Witness ==
    /\ state = "ready" /\ env # ctor.env /\ env = Some("sk-env")
    /\ \E c \in Calls : Len(sentFor[c]) >= 2
    /\ last # None /\ Last.result.kind = "raise"

\* C10: an empty-string argument is treated as no argument: the credential
\* comes from the environment variable when that is non-empty, construction
\* fails otherwise; so a ready client always holds a non-empty credential.
C10_EmptyArgFallsBack ==
    /\ (ctor.called /\ ctor.arg = Some("")) =>
           IF ctor.env \notin {None, Some("")}
           THEN /\ ctor.raised = "" /\ state = "ready"
                /\ api_key = ctor.env
                /\ headers["Authorization"] = "Bearer " \o Val(ctor.env)
           ELSE ctor.raised = "ValueError" /\ state = "unconstructed"
    /\ state = "ready" => (api_key # None /\ Val(api_key) # "")

C10_Witness ==
    /\ ctor.called /\ ctor.arg = Some("") /\ ctor.env = Some("sk-env")
    /\ state = "ready" /\ api_key = Some("sk-env")

====
